---- MODULE Spec2Model ----
(***************************************************************************)
(* Model of the desksdkgo client: NewClient and its options, the generic   *)
(* Service (Get/List/Create/Update), Client.doRequest and the middleware   *)
(* chain it composes, RetryMiddleware, and the two transports a client can *)
(* hold (the default LoggingTransport and a caller supplied http.Client).  *)
(*                                                                         *)
(* One Service call runs at a time.  The call is a stack machine: `handler`*)
(* is the chain doRequest composed, `cur` the position about to be entered,*)
(* `stack` the middleware invocations that have called next and wait for   *)
(* its return, `ret` the (response, error) pair travelling back up.        *)
(***************************************************************************)
EXTENDS Integers, Sequences, FiniteSets, TLC

\* ------------------------------------------------------------------ bounds
\* longest middleware list given to NewClient
MaxMw == 2

\* longest time a round trip takes, in ticks of the clock
MaxTook == 1
\* most goroutines that call one RateLimitMiddleware, most ticks of its ticker
MaxCallers == 2
MaxTicks == 3
\* operator calls made on the filter builders of a run
MaxCalls == 2

\* ------------------------------------------------------------ input domains
Ids == {12}
GoodURL == "https://desk.test/desk/api/v2"
\* a base URL url.Parse rejects ("missing protocol scheme")
BadURL == "://bad"
BaseURLs == {GoodURL, BadURL}
APIKeys == {"", "key"}
Resource == "tickets"
\* caller side url.Values of List: a set of <<key, value>> pairs
ParamSets == {{}, {<<"page", "2">>}}
\* entities the caller can send and the server can answer with
Entities == {[id |-> 7], [id |-> 12]}
Statuses == {200, 201, 500}
\* the maxRetries values RetryMiddleware is built with
RetryCounts == {-1, 0, 2}

\* ----------------------------------------------------------- Go zero values
NilLogger == "nil"
CustomLogger == "logger"
NilHTTPClient == "nil"
\* the *http.Client NewLoggingClientWithLogger builds (LoggingTransport)
LoggingHTTPClient == "logging"
\* an *http.Client given through WithHTTPClient, with the standard transport
CustomHTTPClient == "custom"
NilResp ==
    [status |-> 0, body |-> "", readable |-> TRUE, isNil |-> TRUE, ctxDone |-> FALSE]
NoErr == [kind |-> "nil", code |-> 0, text |-> ""]
NilEntity == [id |-> 0]

\* ------------------------------------------------------------------ strconv
Digit(d) ==
    CASE d = 0 -> "0" [] d = 1 -> "1" [] d = 2 -> "2" [] d = 3 -> "3"
      [] d = 4 -> "4" [] d = 5 -> "5" [] d = 6 -> "6" [] d = 7 -> "7"
      [] d = 8 -> "8" [] d = 9 -> "9"

RECURSIVE UItoa(_)
UItoa(n) == IF n < 10 THEN Digit(n) ELSE UItoa(n \div 10) \o Digit(n % 10)

\* strconv.Itoa
Itoa(n) == IF n < 0 THEN "-" \o UItoa(0 - n) ELSE UItoa(n)

\* -------------------------------------------------------------- PathHandler
NewDefaultPathHandler(base) == [base |-> base]
PathGet(d, id) == d.base \o "/" \o Itoa(id)
PathList(d) == d.base
PathCreate(d) == d.base
\* PathUpdate with a fault: the id is left out
PathUpdateNoId(d, id) == d.base
PathUpdate(d, id) == d.base \o "/" \o Itoa(id)

\* FilePathHandler embeds a DefaultPathHandler for "files" and overrides Create
NewFilePathHandler == NewDefaultPathHandler("files")
FilePathCreate(f) == "files/ref"

\* the method a PathHandler value of the given type answers a call with
Route(type, d, op, id) ==
    CASE op = "Get" -> PathGet(d, id)
      [] op = "List" -> PathList(d)
      [] op = "Create" -> IF type = "FilePathHandler" THEN FilePathCreate(d)
                          ELSE PathCreate(d)
      [] op = "Update" -> PathUpdate(d, id)

\* the handlers and ids the path methods are called with
PathBases == {"tickets", "inboxes", "files", "", "help/docs"}
PathIds == {-3, 0, 5, 9, 10, 12, 99, 100, 105, 2147483647}
PathHandlers ==
    {[type |-> "DefaultPathHandler", d |-> NewDefaultPathHandler(b)] : b \in PathBases}
    \cup {[type |-> "FilePathHandler", d |-> NewFilePathHandler]}

\* ------------------------------------------------------------ encoding/json
\* json.Marshal of an entity envelope
Marshal(e) == "{\"id\":" \o Itoa(e.id) \o "}"
\* the texts json.Decoder accepts for the envelope type
Decodable(text) == \E e \in Entities : Marshal(e) = text
\* json.Decoder.Decode of a text it accepts
Unmarshal(text) == CHOOSE e \in Entities : Marshal(e) = text
\* a response body that is no JSON document
Garbage == "<html>"
\* the entity the server answers with
Served == [id |-> 12]
RespBodies == {Marshal(Served), Garbage}

\* ------------------------------------------------------------------ net/url
\* url.Values.Encode for at most one pair
Encode(params) ==
    IF params = {} THEN ""
    ELSE LET p == CHOOSE q \in params : TRUE IN p[1] \o "=" \o p[2]
\* url.Parse, as http.NewRequestWithContext uses it: fails on a URL without scheme
URLParses(base) == base # BadURL

\* ---------------------------------------------------------------- middleware
\* "pass": an instrumented middleware that calls next once and returns its result
\* "abort": a middleware that returns an error without calling next
\* "retry": RetryMiddleware(maxRetries, delay), delay > 0
\* a MiddlewareFunc value: its constructor and the arguments it closed over
Mw(kind) ==
    [kind |-> kind, maxRetries |-> 0, timeout |-> 0, token |-> "", userAgent |-> "",
     headers |-> {}, condition |-> "", inner |-> <<>>]
PassMw == Mw("pass")
AbortMw == Mw("abort")
RetryMiddleware(maxRetries) == [Mw("retry") EXCEPT !.maxRetries = maxRetries]
LoggingMiddleware == Mw("logging")
AuthMiddleware(token) == [Mw("auth") EXCEPT !.token = token]
UserAgentMiddleware(userAgent) == [Mw("userAgent") EXCEPT !.userAgent = userAgent]
RequestIDMiddleware == Mw("requestID")
TimeoutMiddleware(timeout) == [Mw("timeout") EXCEPT !.timeout = timeout]
\* headers: a set of <<canonical key, value>> pairs, one pair per key
HeaderMiddleware(headers) == [Mw("header") EXCEPT !.headers = headers]
ConditionalMiddleware(condition, middleware) ==
    [Mw("conditional") EXCEPT !.condition = condition, !.inner = <<middleware>>]

\* the arguments the provided middleware are built with
Tokens == {"", "tok"}
Timeouts == {1}
HeaderSets == {{<<"ContentType", "text/plain">>, <<"XCustom", "v">>}}
\* condition func(*http.Request) bool: the request is a POST
IsPost == "isPost"
Holds(condition, r) == condition = IsPost /\ r.method = "POST"

\* the middleware a ConditionalMiddleware wraps, and the provided middleware
WrappedKinds ==
    {AuthMiddleware("tok")} \cup {HeaderMiddleware(h) : h \in HeaderSets}
    \cup {TimeoutMiddleware(d) : d \in Timeouts}
ProvidedKinds ==
    {LoggingMiddleware, UserAgentMiddleware("ua"), RequestIDMiddleware,
     RetryMiddleware(-1)}
    \cup {AuthMiddleware(t) : t \in Tokens}
    \cup {HeaderMiddleware(h) : h \in HeaderSets}
    \cup {TimeoutMiddleware(d) : d \in Timeouts}
    \cup {ConditionalMiddleware(IsPost, m) : m \in WrappedKinds}
ProvidedLists == UNION {[1 .. n -> ProvidedKinds] : n \in 0 .. MaxMw}

MwKinds == {PassMw, AbortMw} \cup {RetryMiddleware(k) : k \in RetryCounts}
MwLists == UNION {[1 .. n -> MwKinds] : n \in 0 .. MaxMw}

\* ------------------------------------------------------------------- options
WithAPIKey(apiKey) == [opt |-> "apiKey", apiKey |-> apiKey, mw |-> PassMw]
WithHTTPClient == [opt |-> "httpClient", apiKey |-> "", mw |-> PassMw]
WithLogger == [opt |-> "logger", apiKey |-> "", mw |-> PassMw]
WithMiddleware(mw) == [opt |-> "middleware", apiKey |-> "", mw |-> mw]

\* one Option applied to the client under construction
ApplyOption(c, o) ==
    CASE o.opt = "apiKey" -> [c EXCEPT !.apiKey = o.apiKey]
      [] o.opt = "httpClient" -> [c EXCEPT !.httpClient = CustomHTTPClient]
      [] o.opt = "logger" -> [c EXCEPT !.logger = CustomLogger]
      [] o.opt = "middleware" -> [c EXCEPT !.middleware = Append(c.middleware, o.mw)]

RECURSIVE ApplyOptions(_, _)
ApplyOptions(c, opts) ==
    IF opts = <<>> THEN c
    ELSE ApplyOptions(ApplyOption(c, Head(opts)), Tail(opts))

NewClient(baseURL, opts) ==
    LET c == ApplyOptions([baseURL |-> baseURL, apiKey |-> "", logger |-> NilLogger,
                           httpClient |-> NilHTTPClient, middleware |-> <<>>], opts)
    IN  IF c.httpClient = NilHTTPClient
        THEN [c EXCEPT !.httpClient = LoggingHTTPClient]
        ELSE c

\* the option lists the model builds clients from
OptionLists ==
    { (IF k = "" THEN <<>> ELSE <<WithAPIKey(k)>>)
      \o (IF h THEN <<WithHTTPClient>> ELSE <<>>)
      \o (IF l THEN <<WithLogger>> ELSE <<>>)
      \o [i \in 1 .. Len(ms) |-> WithMiddleware(ms[i])] :
        k \in APIKeys, h \in BOOLEAN, l \in BOOLEAN, ms \in MwLists }

\* clients whose middleware are the provided ones, built with a logger
ProvidedOptionLists ==
    { (IF k = "" THEN <<>> ELSE <<WithAPIKey(k)>>)
      \o (IF h THEN <<WithHTTPClient>> ELSE <<>>)
      \o <<WithLogger>>
      \o [i \in 1 .. Len(ms) |-> WithMiddleware(ms[i])] :
        k \in APIKeys, h \in BOOLEAN, ms \in ProvidedLists }

\* ------------------------------------------------------------------ requests
\* http.Header, by canonical key; "" stands for a key that is not set
EmptyHeader ==
    [Authorization |-> "", ContentType |-> "", Accept |-> "", UserAgent |-> "",
     XRequestID |-> "", XCustom |-> ""]

\* context.Background(), and a context that carries a deadline
Background == [hasDeadline |-> FALSE, deadline |-> 0]
Deadline(t) == [hasDeadline |-> TRUE, deadline |-> t]
\* the deadlines a caller gives its context
CallerDeadlines == {0, 2}

\* context.WithTimeout(parent, timeout) at time at: the earlier of the parent's
\* deadline and at + timeout
WithTimeout(parent, timeout, at) ==
    IF parent.hasDeadline /\ parent.deadline <= at + timeout THEN parent
    ELSE Deadline(at + timeout)

\* req.Header.Set(key, value) for every pair of headers
SetAll(header, headers) ==
    [k \in DOMAIN header |->
        IF \E p \in headers : p[1] = k
        THEN (CHOOSE p \in headers : p[1] = k)[2]
        ELSE header[k]]

\* http.NewRequestWithContext: the URL is split at its '?' into path and query
NewRequest(method, path, query, hasBody) ==
    [method |-> method, path |-> path, query |-> query,
     header |-> EmptyHeader, hasBody |-> hasBody, ctx |-> Background]

\* the request Service.Get builds
GetRequest(c, router, id) ==
    NewRequest("GET", c.baseURL \o "/" \o PathGet(router, id) \o ".json",
               "includes=all", FALSE)

\* the request Service.List builds
ListRequest(c, router, params) ==
    NewRequest("GET", c.baseURL \o "/" \o PathList(router) \o ".json",
               Encode(params), FALSE)

\* the request Service.Create builds
CreateRequest(c, router) ==
    NewRequest("POST", c.baseURL \o "/" \o PathCreate(router) \o ".json", "", TRUE)

\* UpdateRequest with a fault: the id is left out of the path
UpdateRequestNoId(c, router, id) ==
    NewRequest("PUT", c.baseURL \o "/" \o PathList(router) \o ".json", "", TRUE)

\* the request Service.Update builds
UpdateRequest(c, router, id) ==
    NewRequest("PUT", c.baseURL \o "/" \o PathUpdate(router, id) \o ".json", "", TRUE)

\* SetHeaders with a fault: the Accept header is not set
SetHeadersNoAccept(c, r) ==
    [r EXCEPT !.header =
        [r.header EXCEPT
            !.Authorization = IF c.apiKey # "" THEN "Bearer " \o c.apiKey ELSE @,
            !.ContentType = "application/json"]]

\* doRequest, lines 125-134: the headers set on every request
SetHeaders(c, r) ==
    [r EXCEPT !.header =
        [r.header EXCEPT
            !.Authorization = IF c.apiKey # "" THEN "Bearer " \o c.apiKey ELSE @,
            !.ContentType = "application/json",
            !.Accept = "application/json"]]

\* doRequest, lines 140-147: the handler is built from the last middleware to the
\* first, each wrapping the handler built so far.  A handler is the sequence of
\* middleware indices it runs, outermost first; the empty one is finalHandler.
RECURSIVE ComposeFrom(_, _)
ComposeFrom(i, h) == IF i < 1 THEN h ELSE ComposeFrom(i - 1, <<i>> \o h)

\* Compose with a fault: the loop runs from the first middleware to the last
ComposeReversed(mws) == [i \in 1 .. Len(mws) |-> Len(mws) + 1 - i]

Compose(mws) == ComposeFrom(Len(mws), <<>>)

\* --------------------------------------------------------------------- errors
\* errors of url.Parse, the transport, context.Canceled, an aborting middleware
BuildErr == [kind |-> "build", code |-> 0, text |-> ""]
TransportErr == [kind |-> "transport", code |-> 0, text |-> ""]
CtxErr == [kind |-> "ctx", code |-> 0, text |-> ""]
\* context.DeadlineExceeded
DeadlineErr == [kind |-> "deadline", code |-> 0, text |-> ""]
MwErr == [kind |-> "mw", code |-> 0, text |-> ""]
\* the error io.ReadAll or json.Decoder returns on a body that cannot be read
ReadErr == [kind |-> "read", code |-> 0, text |-> ""]
\* the error json.Decoder returns on a text it does not accept
DecodeErr == [kind |-> "decode", code |-> 0, text |-> ""]
\* fmt.Errorf("unexpected status code: %d", code)
StatusErr(code) == [kind |-> "status", code |-> code, text |-> ""]
\* fmt.Errorf("unexpected status code: %d, body: %s", code, body)
StatusBodyErr(code, body) == [kind |-> "status", code |-> code, text |-> body]

Pair(resp, err) == [resp |-> resp, err |-> err]
Resp(status, body, readable) ==
    [status |-> status, body |-> body, readable |-> readable, isNil |-> FALSE,
     ctxDone |-> FALSE]

\* ------------------------------------------------------------ service results
Ok(e) == [kind |-> "ok", entity |-> e, err |-> NoErr]
Fail(err) == [kind |-> "err", entity |-> NilEntity, err |-> err]
\* a nil pointer dereference: the goroutine panics, nothing is returned
Panic == [kind |-> "panic", entity |-> NilEntity, err |-> NoErr]
NoResult == [kind |-> "none", entity |-> NilEntity, err |-> NoErr]

\* s.client.logger.Error(...) followed by a return: a method call on the nil
\* *slog.Logger of a client built without WithLogger dereferences nil
LogErrorThen(c, r) == IF c.logger = NilLogger THEN Panic ELSE r

\* json.NewDecoder(resp.Body).Decode(&resource) and the return after it
DecodeResult(c, resp) ==
    IF ~resp.readable THEN LogErrorThen(c, Fail(ReadErr))
    ELSE IF ~Decodable(resp.body) THEN LogErrorThen(c, Fail(DecodeErr))
    ELSE Ok(Unmarshal(resp.body))

\* Service.Get from the return of doRequest on
GetResult(c, r) ==
    IF r.err # NoErr THEN LogErrorThen(c, Fail(r.err))
    ELSE IF r.resp.isNil THEN Panic
    ELSE IF r.resp.status # 200 THEN LogErrorThen(c, Fail(StatusErr(r.resp.status)))
    ELSE DecodeResult(c, r.resp)

\* Service.List from the return of doRequest on
ListResult(c, r) ==
    IF r.err # NoErr THEN LogErrorThen(c, Fail(r.err))
    ELSE IF r.resp.isNil THEN Panic
    ELSE IF r.resp.status # 200 THEN LogErrorThen(c, Fail(StatusErr(r.resp.status)))
    ELSE DecodeResult(c, r.resp)

\* Service.Create from the return of doRequest on
CreateResult(c, r) ==
    IF r.err # NoErr THEN LogErrorThen(c, Fail(r.err))
    ELSE IF r.resp.isNil THEN Panic
    ELSE IF r.resp.status # 201
         THEN IF ~r.resp.readable THEN LogErrorThen(c, Fail(ReadErr))
              ELSE LogErrorThen(c, Fail(StatusBodyErr(r.resp.status, r.resp.body)))
    ELSE DecodeResult(c, r.resp)

\* Service.Update from the return of doRequest on
UpdateResult(c, r) ==
    IF r.err # NoErr THEN LogErrorThen(c, Fail(r.err))
    ELSE IF r.resp.isNil THEN Panic
    ELSE IF r.resp.status # 200 THEN LogErrorThen(c, Fail(StatusErr(r.resp.status)))
    ELSE DecodeResult(c, r.resp)

\* ------------------------------------------------------------------ transport
\* the responses a server can give; a body that cannot be read has no text
Responses ==
    {Resp(s, b, TRUE) : s \in Statuses, b \in RespBodies}
    \cup {Resp(s, "", FALSE) : s \in Statuses}

\* http.Transport.RoundTrip: what it returns and whether it read the request body
\* to its end.  With a cancelled context it returns the context's error before
\* it writes anything; a failure can come before or after the body was written.
RoundTripOutcomes(isCancelled, hasBody) ==
    IF isCancelled THEN {[resp |-> NilResp, err |-> CtxErr, reads |-> FALSE]}
    ELSE {[resp |-> NilResp, err |-> TransportErr, reads |-> r] :
             r \in IF hasBody THEN BOOLEAN ELSE {FALSE}}
         \cup {[resp |-> rs, err |-> NoErr, reads |-> hasBody] : rs \in Responses}

\* the times a round trip can take; where no deadline can tell, time stands still
Durations(rctx) == IF rctx.hasDeadline THEN 0 .. MaxTook ELSE {0}

\* the deadline of the request's context passes before a round trip that
\* starts at time at and takes t is over
Expires(rctx, at, t) == rctx.hasDeadline /\ at + t >= rctx.deadline

\* the clock after a round trip that takes t, or that the deadline cuts short
After(rctx, at, t) ==
    IF Expires(rctx, at, t) THEN (IF at > rctx.deadline THEN at ELSE rctx.deadline)
    ELSE at + t

\* http.Transport.RoundTrip under the request's context: once the deadline has
\* passed it gives up and returns context.DeadlineExceeded
TimedOutcomes(rctx, at, isCancelled, hasBody) ==
    UNION { IF Expires(rctx, at, t)
            THEN {[resp |-> NilResp, err |-> DeadlineErr, reads |-> FALSE, took |-> t]}
            ELSE {[resp |-> o.resp, err |-> o.err, reads |-> o.reads, took |-> t] :
                     o \in RoundTripOutcomes(isCancelled, hasBody)} :
            t \in Durations(rctx) }

\* bytes.Buffer behind the request body: what a reader still gets from it
Unread(b) == IF b.consumed THEN "" ELSE b.data

\* --------------------------------------------------------------- RetryMiddleware
\* the loop condition `attempt <= maxRetries`
RetryLoops(attempt, maxRetries) == attempt <= maxRetries

\* RetryBreaks with a fault: the loop is left one attempt too early
RetryBreaksEarly(err, attempt, maxRetries) == err = NoErr \/ attempt + 1 = maxRetries

\* RetryBreaks with a fault: a success does not end the loop
RetryBreaksOnLastOnly(err, attempt, maxRetries) == attempt = maxRetries

\* line 57: `err == nil || attempt == maxRetries`, a break out of the loop
RetryBreaks(err, attempt, maxRetries) == err = NoErr \/ attempt = maxRetries

\* RetrySelect with a fault: the select has no ctx.Done() case
RetrySelectIgnoresCtx(ready) == "next"

\* lines 62-68, the select between time.After(retryDelay) and ctx.Done(): the
\* channel operation that becomes ready first completes it
RetrySelect(ready) == IF ready = "ctx" THEN "return" ELSE "next"

\* ---------------------------------------------------------------------- state
VARIABLES
    client,     \* the Client NewClient returned
    pc,         \* "idle", "down" (a handler is being entered), "up" (a handler
                \* returns), "wait" (RetryMiddleware blocked in its select), "done"
    call,       \* the Service operation in progress and its arguments
    req,        \* the *http.Request the Service built
    buf,        \* the bytes.Buffer behind req.Body, shared by every clone of req
    handler,    \* the handler doRequest composed
    cur,        \* position in handler of the handler being entered
    stack,      \* middleware invocations waiting for next to return
    ret,        \* the (response, error) pair being returned
    cancelled,  \* the caller's context is done
    trace,      \* history: entry and exit of every middleware, and every send
                \* with the error the transport under it returned
    sends,      \* history: the requests handed to httpClient.Do
    retryLog,   \* history: the last return of a RetryMiddleware invocation
    result,     \* what the Service operation returned to its caller
    now,        \* the clock, as far as a deadline can observe it
    ctx,        \* the context.Context handed to the handler being entered
    limiter,    \* RateLimitMiddleware: its channel and its ticker
    callers,    \* the goroutines calling one RateLimitMiddleware
    conc,       \* the calls several goroutines make on one Client
    paths,      \* a PathHandler and the last path it was asked for
    upload,     \* a FileService.Upload call
    filter      \* the FilterBuilders of a program

\* the variables of one Service call
pipeVars == <<client, pc, call, req, buf, handler, cur, stack, ret, cancelled,
              trace, sends, retryLog, result, now, ctx>>
rateVars == <<limiter, callers>>
\* what a Service call leaves alone
aside == <<rateVars, conc, paths, upload, filter>>

vars == <<pipeVars, aside>>

NoCall == [op |-> "none", id |-> 0, entity |-> NilEntity, params |-> {}]
NoRequest == NewRequest("", "", "", FALSE)
NoBuf == [data |-> "", consumed |-> FALSE]
NoRet == Pair(NilResp, NoErr)
NoRetry == [how |-> "none", mw |-> 0, maxRetries |-> 0, calls |-> 0,
            allErr |-> TRUE, inner |-> NoRet, out |-> NoRet]

Event(ev, mw, err) == [ev |-> ev, mw |-> mw, err |-> err]
\* a middleware invocation that has called next: the middleware it runs, the
\* context it was entered with and the time it was entered at
Frame(pos, mw) ==
    [pos |-> pos, mw |-> mw, attempt |-> 0, calls |-> 1, allErr |-> TRUE,
     st |-> "called", kind |-> client.middleware[mw].kind, ctx |-> ctx, at |-> now]

\* no Service call has been made on the client
NoCallYet ==
    /\ pc = "idle"
    /\ call = NoCall
    /\ req = NoRequest
    /\ buf = NoBuf
    /\ handler = <<>>
    /\ cur = 0
    /\ stack = <<>>
    /\ ret = NoRet
    /\ cancelled = FALSE
    /\ trace = <<>>
    /\ sends = <<>>
    /\ retryLog = NoRetry
    /\ result = NoResult
    /\ now = 0
    /\ ctx = Background

\* the parts of the program other than `part` are not in use
IdleExcept(part) ==
    /\ IF part \in {"pipe", "conc", "upload"} THEN TRUE
       ELSE client = NewClient(GoodURL, <<>>)
    /\ IF part = "pipe" THEN TRUE ELSE NoCallYet
    /\ IF part = "rate" THEN TRUE ELSE limiter = <<>> /\ callers = <<>>
    /\ IF part = "conc" THEN TRUE ELSE conc = <<>>
    /\ IF part = "path" THEN TRUE ELSE paths = <<>>
    /\ IF part = "upload" THEN TRUE ELSE upload = <<>>
    /\ IF part = "filter" THEN TRUE ELSE filter = <<>>

Init ==
    /\ client \in {NewClient(b, opts) : b \in BaseURLs, opts \in OptionLists}
    /\ NoCallYet
    /\ IdleExcept("pipe")

\* -------------------------------------------------------------------- Service
router == NewDefaultPathHandler(Resource)

\* the part the four operations share: a request that cannot be built is logged
\* and returned as an error, any other goes to doRequest
StartCall(c, r, data) ==
    IF ~URLParses(c.baseURL)
    THEN /\ result' = LogErrorThen(c, Fail(BuildErr))
         /\ pc' = "done"
         /\ UNCHANGED <<req, buf, handler, cur>>
    ELSE /\ req' = SetHeaders(c, [r EXCEPT !.ctx = ctx])
         /\ buf' = [data |-> data, consumed |-> FALSE]
         /\ handler' = Compose(c.middleware)
         /\ cur' = 1
         /\ pc' = "down"
         /\ UNCHANGED result

Get(id) ==
    /\ pc = "idle"
    /\ call' = [NoCall EXCEPT !.op = "Get", !.id = id]
    /\ StartCall(client, GetRequest(client, router, id), "")
    /\ UNCHANGED <<client, stack, ret, cancelled, trace, sends, retryLog>>
    /\ UNCHANGED <<now, ctx, aside>>

List(params) ==
    /\ pc = "idle"
    /\ call' = [NoCall EXCEPT !.op = "List", !.params = params]
    /\ StartCall(client, ListRequest(client, router, params), "")
    /\ UNCHANGED <<client, stack, ret, cancelled, trace, sends, retryLog>>
    /\ UNCHANGED <<now, ctx, aside>>

Create(e) ==
    /\ pc = "idle"
    /\ call' = [NoCall EXCEPT !.op = "Create", !.entity = e]
    /\ StartCall(client, CreateRequest(client, router), Marshal(e))
    /\ UNCHANGED <<client, stack, ret, cancelled, trace, sends, retryLog>>
    /\ UNCHANGED <<now, ctx, aside>>

Update(id, e) ==
    /\ pc = "idle"
    /\ call' = [NoCall EXCEPT !.op = "Update", !.id = id, !.entity = e]
    /\ StartCall(client, UpdateRequest(client, router, id), Marshal(e))
    /\ UNCHANGED <<client, stack, ret, cancelled, trace, sends, retryLog>>
    /\ UNCHANGED <<now, ctx, aside>>

\* doRequest has returned to the Service operation, which ends
ServiceResult(c, op, r) ==
    CASE op = "Get" -> GetResult(c, r)
      [] op = "List" -> ListResult(c, r)
      [] op = "Create" -> CreateResult(c, r)
      [] op = "Update" -> UpdateResult(c, r)

ServiceReturn ==
    /\ pc = "up"
    /\ stack = <<>>
    /\ result' = ServiceResult(client, call.op, ret)
    /\ pc' = "done"
    /\ UNCHANGED <<client, call, req, buf, handler, cur, stack, ret, cancelled,
                   trace, sends, retryLog>>
    /\ UNCHANGED <<now, ctx, aside>>

\* ------------------------------------------------------------ middleware chain
Top == stack[Len(stack)]
Pop == SubSeq(stack, 1, Len(stack) - 1)
ReplaceTop(f) == [stack EXCEPT ![Len(stack)] = f]
MwAt(pos) == client.middleware[handler[pos]]

\* an instrumented middleware is entered and calls next
PassEnter ==
    /\ pc = "down"
    /\ cur <= Len(handler)
    /\ MwAt(cur).kind = "pass"
    /\ trace' = Append(trace, Event("pre", handler[cur], NoErr))
    /\ stack' = Append(stack, Frame(cur, handler[cur]))
    /\ cur' = cur + 1
    /\ UNCHANGED <<client, pc, call, req, buf, handler, ret, cancelled, sends,
                   retryLog, result>>
    /\ UNCHANGED <<now, ctx, aside>>

\* next has returned to an instrumented middleware, which returns what it got
PassReturn ==
    /\ pc = "up"
    /\ stack # <<>>
    /\ client.middleware[Top.mw].kind = "pass"
    /\ trace' = Append(trace, Event("post", Top.mw, ret.err))
    /\ stack' = Pop
    /\ UNCHANGED <<client, pc, call, req, buf, handler, cur, ret, cancelled, sends,
                   retryLog, result>>
    /\ UNCHANGED <<now, ctx, aside>>

\* a middleware that returns an error without calling next
AbortRun ==
    /\ pc = "down"
    /\ cur <= Len(handler)
    /\ MwAt(cur).kind = "abort"
    /\ trace' = trace \o <<Event("pre", handler[cur], NoErr),
                           Event("post", handler[cur], MwErr)>>
    /\ ret' = Pair(NilResp, MwErr)
    /\ pc' = "up"
    /\ UNCHANGED <<client, call, req, buf, handler, cur, stack, cancelled, sends,
                   retryLog, result>>
    /\ UNCHANGED <<now, ctx, aside>>

\* RetryMiddleware is entered: with the loop condition true it clones the request
\* and calls next, otherwise it returns its zero (nil, nil)
RetryEnter ==
    /\ pc = "down"
    /\ cur <= Len(handler)
    /\ MwAt(cur).kind = "retry"
    /\ IF RetryLoops(0, MwAt(cur).maxRetries)
       THEN /\ trace' = Append(trace, Event("pre", handler[cur], NoErr))
            /\ stack' = Append(stack, Frame(cur, handler[cur]))
            /\ cur' = cur + 1
            /\ UNCHANGED <<pc, ret, retryLog>>
       ELSE /\ trace' = trace \o <<Event("pre", handler[cur], NoErr),
                                   Event("post", handler[cur], NoErr)>>
            /\ ret' = NoRet
            /\ pc' = "up"
            /\ retryLog' = [NoRetry EXCEPT !.how = "loop", !.mw = handler[cur],
                                           !.maxRetries = MwAt(cur).maxRetries]
            /\ UNCHANGED <<stack, cur>>
    /\ UNCHANGED <<client, call, req, buf, handler, cancelled, sends, result>>
    /\ UNCHANGED <<now, ctx, aside>>

\* the invocation on top of the stack returns r
RetryLeaves(how, f, r) ==
    /\ trace' = Append(trace, Event("post", f.mw, r.err))
    /\ stack' = Pop
    /\ ret' = r
    /\ pc' = "up"
    /\ retryLog' = [how |-> how, mw |-> f.mw,
                    maxRetries |-> client.middleware[f.mw].maxRetries,
                    calls |-> f.calls, allErr |-> f.allErr, inner |-> ret, out |-> r]
    /\ UNCHANGED cur

\* the invocation on top of the stack starts its next attempt: attempt++, the
\* loop condition, req.Clone(ctx), next
RetryAgain(f) ==
    IF RetryLoops(f.attempt + 1, client.middleware[f.mw].maxRetries)
    THEN /\ stack' = ReplaceTop([f EXCEPT !.attempt = f.attempt + 1,
                                          !.calls = f.calls + 1, !.st = "called"])
         /\ cur' = f.pos + 1
         /\ pc' = "down"
         /\ UNCHANGED <<trace, ret, retryLog>>
    ELSE RetryLeaves("loop", f, ret)

\* next has returned to RetryMiddleware
RetryReturn ==
    /\ pc = "up"
    /\ stack # <<>>
    /\ client.middleware[Top.mw].kind = "retry"
    /\ LET k == client.middleware[Top.mw].maxRetries
           f == [Top EXCEPT !.allErr = Top.allErr /\ ret.err # NoErr]
       IN  IF RetryBreaks(ret.err, f.attempt, k) THEN RetryLeaves("loop", f, ret)
           ELSE IF f.attempt < k
           THEN IF cancelled
                THEN IF RetrySelect("ctx") = "return"
                     THEN RetryLeaves("ctx", f, Pair(NilResp, CtxErr))
                     ELSE RetryAgain(f)
                ELSE /\ stack' = ReplaceTop([f EXCEPT !.st = "blocked"])
                     /\ pc' = "wait"
                     /\ UNCHANGED <<trace, ret, retryLog, cur>>
           ELSE RetryAgain(f)
    /\ UNCHANGED <<client, call, req, buf, handler, cancelled, sends, result>>
    /\ UNCHANGED <<now, ctx, aside>>

\* time.After(retryDelay) fires while RetryMiddleware is blocked in its select
RetryTimer ==
    /\ pc = "wait"
    /\ IF RetrySelect("timer") = "next"
       THEN RetryAgain(Top)
       ELSE RetryLeaves("ctx", Top, Pair(NilResp, CtxErr))
    /\ UNCHANGED <<client, call, req, buf, handler, cancelled, sends, result>>
    /\ UNCHANGED <<now, ctx, aside>>

\* the caller cancels its context; a RetryMiddleware blocked in its select wakes
Cancel ==
    /\ pc \in {"idle", "down", "up", "wait"}
    /\ ~cancelled
    /\ cancelled' = TRUE
    /\ IF pc = "wait"
       THEN IF RetrySelect("ctx") = "return"
            THEN RetryLeaves("ctxWait", Top, Pair(NilResp, CtxErr))
            ELSE RetryAgain(Top)
       ELSE UNCHANGED <<pc, stack, ret, trace, retryLog, cur>>
    /\ UNCHANGED <<client, call, req, buf, handler, sends, result>>
    /\ UNCHANGED <<now, ctx, aside>>

\* --------------------------------------------------------- provided middleware
\* the middleware about to run: the one at cur, or the one the
\* ConditionalMiddleware on top of the stack calls with its own next
Entering == IF pc = "inner" THEN client.middleware[Top.mw].inner[1] ELSE MwAt(cur)
CanEnter(kind) ==
    \/ pc = "inner" /\ Entering.kind = kind
    \/ pc = "down" /\ cur <= Len(handler) /\ MwAt(cur).kind = kind

\* next(ctx, req) called by the middleware that is running
CallNext(kind) ==
    /\ stack' = Append(stack, [Frame(cur, handler[cur]) EXCEPT !.kind = kind])
    /\ trace' = Append(trace, Event("pre", handler[cur], NoErr))
    /\ cur' = cur + 1
    /\ pc' = "down"

\* the caller derives its context with context.WithDeadline before it calls
WithDeadline(dl) ==
    /\ pc = "idle"
    /\ ctx = Background
    /\ ctx' = Deadline(dl)
    /\ UNCHANGED <<client, pc, call, req, buf, handler, cur, stack, ret, cancelled,
                   trace, sends, retryLog, result, now, aside>>

LoggingEnter ==
    /\ CanEnter("logging")
    /\ CallNext("logging")
    /\ UNCHANGED <<client, call, req, buf, handler, ret, cancelled, sends, retryLog,
                   result, now, ctx, aside>>

\* next has returned to LoggingMiddleware: with a nil error it reads
\* resp.StatusCode, a nil pointer dereference when resp is nil too
LoggingReturn ==
    /\ pc = "up"
    /\ stack # <<>>
    /\ Top.kind = "logging"
    /\ IF ret.err = NoErr /\ ret.resp.isNil
       THEN /\ result' = Panic
            /\ pc' = "done"
            /\ UNCHANGED <<stack, trace>>
       ELSE /\ stack' = Pop
            /\ trace' = Append(trace, Event("post", Top.mw, ret.err))
            /\ UNCHANGED <<pc, result>>
    /\ UNCHANGED <<client, call, req, buf, handler, cur, ret, cancelled, sends,
                   retryLog, now, ctx, aside>>

AuthEnter ==
    /\ CanEnter("auth")
    /\ req' = IF Entering.token # ""
              THEN [req EXCEPT !.header.Authorization = "Bearer " \o Entering.token]
              ELSE req
    /\ CallNext("auth")
    /\ UNCHANGED <<client, call, buf, handler, ret, cancelled, sends, retryLog,
                   result, now, ctx, aside>>

UserAgentEnter ==
    /\ CanEnter("userAgent")
    /\ req' = [req EXCEPT !.header.UserAgent = Entering.userAgent]
    /\ CallNext("userAgent")
    /\ UNCHANGED <<client, call, buf, handler, ret, cancelled, sends, retryLog,
                   result, now, ctx, aside>>

RequestIDEnter ==
    /\ CanEnter("requestID")
    /\ req' = [req EXCEPT !.header.XRequestID = "req_" \o Itoa(now)]
    /\ CallNext("requestID")
    /\ UNCHANGED <<client, call, buf, handler, ret, cancelled, sends, retryLog,
                   result, now, ctx, aside>>

HeaderEnter ==
    /\ CanEnter("header")
    /\ req' = [req EXCEPT !.header = SetAll(req.header, Entering.headers)]
    /\ CallNext("header")
    /\ UNCHANGED <<client, call, buf, handler, ret, cancelled, sends, retryLog,
                   result, now, ctx, aside>>

\* ConditionalMiddleware: the wrapped middleware runs with the same next when the
\* condition holds of the request, otherwise next is called
ConditionalEnter ==
    /\ pc = "down"
    /\ cur <= Len(handler)
    /\ MwAt(cur).kind = "conditional"
    /\ stack' = Append(stack, Frame(cur, handler[cur]))
    /\ trace' = Append(trace, Event("pre", handler[cur], NoErr))
    /\ IF Holds(MwAt(cur).condition, req)
       THEN pc' = "inner" /\ cur' = cur
       ELSE pc' = "down" /\ cur' = cur + 1
    /\ UNCHANGED <<client, call, req, buf, handler, ret, cancelled, sends, retryLog,
                   result, now, ctx, aside>>

\* next has returned to a middleware that ends in `return next(ctx, req)`
TailReturn ==
    /\ pc = "up"
    /\ stack # <<>>
    /\ Top.kind \in {"auth", "userAgent", "requestID", "header", "conditional"}
    /\ stack' = Pop
    /\ trace' = Append(trace, Event("post", Top.mw, ret.err))
    /\ UNCHANGED <<client, pc, call, req, buf, handler, cur, ret, cancelled, sends,
                   retryLog, result, now, ctx, aside>>

\* TimeoutMiddleware: next gets the derived context, as its argument and in the
\* request
TimeoutEnter ==
    /\ CanEnter("timeout")
    /\ ctx' = WithTimeout(ctx, Entering.timeout, now)
    /\ req' = [req EXCEPT !.ctx = ctx']
    /\ CallNext("timeout")
    /\ UNCHANGED <<client, call, buf, handler, ret, cancelled, sends, retryLog,
                   result, now, aside>>

\* next has returned to TimeoutMiddleware: the deferred cancel() ends the derived
\* context.  A response whose body the transport still streams loses the race
\* or not; the body LoggingTransport put back is in memory.
TimeoutReturn ==
    /\ pc = "up"
    /\ stack # <<>>
    /\ Top.kind = "timeout"
    /\ \E survives \in IF client.httpClient = CustomHTTPClient THEN BOOLEAN ELSE {TRUE} :
          ret' = IF ret.resp.isNil THEN ret
                 ELSE [ret EXCEPT !.resp.ctxDone = TRUE,
                                  !.resp.readable = @ /\ survives]
    /\ ctx' = Top.ctx
    /\ req' = [req EXCEPT !.ctx = Top.ctx]
    /\ stack' = Pop
    /\ trace' = Append(trace, Event("post", Top.mw, ret.err))
    /\ UNCHANGED <<client, pc, call, buf, handler, cur, cancelled, sends, retryLog,
                   result, now, aside>>

\* ---------------------------------------------------------------- finalHandler
Sent == [method |-> req.method, path |-> req.path, query |-> req.query,
         header |-> req.header, body |-> IF req.hasBody THEN Unread(buf) ELSE "",
         ctx |-> req.ctx]

\* c.httpClient.Do(req) on a client given through WithHTTPClient
CustomSend ==
    /\ pc = "down"
    /\ cur = Len(handler) + 1
    /\ client.httpClient = CustomHTTPClient
    /\ \E o \in TimedOutcomes(req.ctx, now, cancelled, req.hasBody) :
          /\ ret' = Pair(o.resp, o.err)
          /\ buf' = [buf EXCEPT !.consumed = buf.consumed \/ o.reads]
          /\ trace' = Append(trace, Event("send", 0, o.err))
          /\ now' = After(req.ctx, now, o.took)
    /\ sends' = Append(sends, Sent)
    /\ pc' = "up"
    /\ UNCHANGED <<client, call, req, handler, cur, stack, cancelled, retryLog,
                   result>>
    /\ UNCHANGED <<ctx, aside>>

\* LoggingTransport.RoundTrip after the inner RoundTrip returned o: it reads
\* resp.StatusCode with resp nil on an error, and logs a failed read of the
\* response body through its logger, which without WithLogger is the logger
\* NewLoggingClientWithLogger builds over a nil writer
LoggingOutcome(c, o) ==
    IF o.err # NoErr THEN "panic"
    ELSE IF ~o.resp.readable /\ c.logger = NilLogger THEN "panic"
    ELSE "return"

\* c.httpClient.Do(req) on the default client: LoggingTransport.RoundTrip reads
\* the request body to its end, gives the inner transport a copy of what it read
LoggingSend ==
    /\ pc = "down"
    /\ cur = Len(handler) + 1
    /\ client.httpClient = LoggingHTTPClient
    /\ buf' = [buf EXCEPT !.consumed = buf.consumed \/ req.hasBody]
    /\ sends' = Append(sends, Sent)
    /\ \E o \in TimedOutcomes(req.ctx, now, cancelled, FALSE) :
        /\ trace' = Append(trace, Event("send", 0, o.err))
        /\ now' = After(req.ctx, now, o.took)
        /\ IF LoggingOutcome(client, o) = "panic"
           THEN /\ result' = Panic
                /\ pc' = "done"
                /\ UNCHANGED ret
           ELSE /\ ret' = Pair(o.resp, o.err)
                /\ pc' = "up"
                /\ UNCHANGED result
    /\ UNCHANGED <<client, call, req, handler, cur, stack, cancelled, retryLog>>
    /\ UNCHANGED <<ctx, aside>>

\* ---------------------------------------------------------------- specification
Next ==
    \/ \E id \in Ids : Get(id)
    \/ \E params \in ParamSets : List(params)
    \/ \E e \in Entities : Create(e)
    \/ \E id \in Ids, e \in Entities : Update(id, e)
    \/ PassEnter
    \/ PassReturn
    \/ AbortRun
    \/ RetryEnter
    \/ RetryReturn
    \/ RetryTimer
    \/ Cancel
    \/ CustomSend
    \/ LoggingSend
    \/ ServiceReturn

Spec == Init /\ [][Next]_vars

\* calls on clients whose middleware are the provided ones
InitProvided ==
    /\ client \in {NewClient(GoodURL, opts) : opts \in ProvidedOptionLists}
    /\ NoCallYet
    /\ IdleExcept("pipe")

NextProvided ==
    \/ \E dl \in CallerDeadlines : WithDeadline(dl)
    \/ \E id \in Ids : Get(id)
    \/ \E e \in Entities : Create(e)
    \/ LoggingEnter
    \/ LoggingReturn
    \/ AuthEnter
    \/ UserAgentEnter
    \/ RequestIDEnter
    \/ HeaderEnter
    \/ ConditionalEnter
    \/ TailReturn
    \/ TimeoutEnter
    \/ TimeoutReturn
    \/ RetryEnter
    \/ CustomSend
    \/ LoggingSend
    \/ ServiceReturn

SpecProvided == InitProvided /\ [][NextProvided]_vars

\* ----------------------------------------------------------- RateLimitMiddleware
\* make(chan time.Time, 1): the capacity of limiter
LimiterCap == 1

\* Offer with a fault: the send blocks until there is room instead of skipping
OfferAlways(chan, t) == Append(chan, t)

\* the ticker goroutine's select { case limiter <- t: default: } with no receiver
\* waiting: the tick is buffered if there is room and dropped otherwise
Offer(chan, t) == IF Len(chan) < LimiterCap THEN Append(chan, t) ELSE chan

\* RateSelect with a fault: the select has no ctx.Done() case
RateSelectNoCtx(tokenReady, ctxReady) == IF tokenReady THEN {"limiter"} ELSE {}

\* the handler's select { case <-limiter: ...; case <-ctx.Done(): ... }: the cases
\* that can proceed; Go picks one of them at random, and blocks when there is none
RateSelect(tokenReady, ctxReady) ==
    (IF tokenReady THEN {"limiter"} ELSE {}) \cup (IF ctxReady THEN {"ctx"} ELSE {})

Callers == 1 .. MaxCallers
\* a goroutine about to call the middleware with a context of its own
IdleCaller ==
    [pc |-> "idle", ctxDone |-> FALSE, err |-> "", token |-> 0, waited |-> FALSE]
Blocked == {c \in Callers : callers[c].pc = "blocked"}

InitRate ==
    /\ limiter = [chan |-> <<>>, ticks |-> 0, admits |-> <<>>]
    /\ callers = [c \in Callers |-> IdleCaller]
    /\ IdleExcept("rate")

\* caller c receives tick t from limiter and calls next
Admit(c, t) == [callers EXCEPT ![c].pc = "next", ![c].token = t]

\* ticker.C delivers a tick: a handler blocked in its select receives it at once,
\* otherwise it goes to the channel's buffer or is skipped
Tick ==
    /\ limiter.ticks < MaxTicks
    /\ LET t == limiter.ticks + 1 IN
         IF Blocked # {}
         THEN \E c \in Blocked :
                 /\ callers' = Admit(c, t)
                 /\ limiter' = [limiter EXCEPT !.ticks = t, !.admits = Append(@, t)]
         ELSE /\ limiter' = [limiter EXCEPT !.ticks = t, !.chan = Offer(@, t)]
              /\ UNCHANGED callers
    /\ UNCHANGED <<pipeVars, conc, paths, upload, filter>>

\* caller c enters the handler and reaches its select
RateEnter(c) ==
    /\ callers[c].pc = "idle"
    /\ LET ready == RateSelect(limiter.chan # <<>>, callers[c].ctxDone) IN
         IF ready = {}
         THEN /\ callers' = [callers EXCEPT ![c].pc = "blocked", ![c].waited = TRUE]
              /\ UNCHANGED limiter
         ELSE \E case \in ready :
                 IF case = "limiter"
                 THEN /\ callers' = Admit(c, Head(limiter.chan))
                      /\ limiter' = [limiter EXCEPT !.chan = Tail(@),
                                         !.admits = Append(@, Head(limiter.chan))]
                 ELSE /\ callers' = [callers EXCEPT ![c].pc = "returned",
                                                     ![c].err = "ctx"]
                      /\ UNCHANGED limiter
    /\ UNCHANGED <<pipeVars, conc, paths, upload, filter>>

\* the context of caller c is cancelled; a handler blocked in its select wakes
RateCancel(c) ==
    /\ callers[c].pc \in {"idle", "blocked", "next"}
    /\ ~callers[c].ctxDone
    /\ callers' =
          IF callers[c].pc = "blocked" /\ "ctx" \in RateSelect(FALSE, TRUE)
          THEN [callers EXCEPT ![c].ctxDone = TRUE, ![c].pc = "returned",
                               ![c].err = "ctx"]
          ELSE [callers EXCEPT ![c].ctxDone = TRUE]
    /\ UNCHANGED <<limiter, pipeVars, conc, paths, upload, filter>>

\* next returns to the handler of caller c, which returns
RateReturn(c) ==
    /\ callers[c].pc = "next"
    /\ callers' = [callers EXCEPT ![c].pc = "returned"]
    /\ UNCHANGED <<limiter, pipeVars, conc, paths, upload, filter>>

\* the goroutine makes its next call, under a new context
RateAgain(c) ==
    /\ callers[c].pc = "returned"
    /\ callers' = [callers EXCEPT ![c] = IdleCaller]
    /\ UNCHANGED <<limiter, pipeVars, conc, paths, upload, filter>>

NextRate ==
    \/ Tick
    \/ \E c \in Callers : RateEnter(c)
    \/ \E c \in Callers : RateCancel(c)
    \/ \E c \in Callers : RateReturn(c)
    \/ \E c \in Callers : RateAgain(c)

SpecRate == InitRate /\ [][NextRate]_vars

\* ------------------------------------------------------------ PathHandler calls
InitPath ==
    /\ paths \in {[h |-> h, op |-> "none", id |-> 0, out |-> ""] : h \in PathHandlers}
    /\ IdleExcept("path")

\* one call of a method of the handler
PathCall(op, id) ==
    /\ paths' = [paths EXCEPT !.op = op, !.id = id,
                              !.out = Route(paths.h.type, paths.h.d, op, id)]
    /\ UNCHANGED <<pipeVars, rateVars, conc, upload, filter>>

NextPath ==
    \/ \E id \in PathIds : PathCall("Get", id)
    \/ PathCall("List", 0)
    \/ PathCall("Create", 0)
    \/ \E id \in PathIds : PathCall("Update", id)

SpecPath == InitPath /\ [][NextPath]_vars

\* ---------------------------------------------------------- FileService.Upload
\* the keys of the fields map, and the fields the descriptor of Files.Create
\* can carry a value for
SignedFields ==
    {"Content-Type", "bucket", "key", "policy", "success_action_status",
     "x-amz-algorithm", "x-amz-credential", "x-amz-date", "x-amz-signature"}
FieldSets == {{}, {"key"}, {"key", "policy"}, {"bucket", "key", "policy"}}
UploadURLs == {"https://s3.test/bucket", BadURL}
Payloads == {"", "data"}
UploadStatuses == {200, 201, 202, 204, 403, 500}
\* a *models.FileResponse: params[k] is "" for a field the server left out
FileResponse(url, set) ==
    [url |-> url, filename |-> "a.txt",
     params |-> [k \in SignedFields |-> IF k \in set THEN "v" ELSE ""]]
\* the orders in which range can visit the keys in S
Perms(S) ==
    {o \in [1 .. Cardinality(S) -> S] : \A k \in S : \E i \in DOMAIN o : o[i] = k}
\* the keys WriteField is called for
FieldsWritten(file) == {k \in SignedFields : file.params[k] # ""}

\* MultipartBody with a fault: the file part is written before the fields
MultipartBodyFileFirst(file, f, order) ==
    <<[name |-> "file", value |-> f]>>
    \o [i \in 1 .. Len(order) |-> [name |-> order[i], value |-> file.params[order[i]]]]

\* the multipart body: a part per visited field that has a value, then the file
MultipartBody(file, f, order) ==
    [i \in 1 .. Len(order) |-> [name |-> order[i], value |-> file.params[order[i]]]]
    \o <<[name |-> "file", value |-> f]>>

UploadOKAny2xx(status) == status \div 100 = 2

\* the statuses Upload takes for a success
UploadOK(status) == status \in {204, 201, 200}

\* fmt.Errorf("failed to upload file, status code: %d, status: %s, body: %s", ..)
UploadErr(code, body) == [kind |-> "upload", code |-> code, text |-> body]
\* body, _ := io.ReadAll(resp.Body) keeps what arrived and drops the error
ReadAllIgnoring(resp) == IF resp.readable THEN resp.body ELSE ""

\* what http.DefaultClient.Do can return
UploadOutcomes ==
    {Pair(NilResp, TransportErr), Pair(NilResp, CtxErr)}
    \cup {Pair(Resp(st, b, r), NoErr) :
            st \in UploadStatuses, b \in {"", "denied"}, r \in BOOLEAN}

UploadIdle ==
    [pc |-> "idle", file |-> FileResponse("", {}), f |-> "", req |-> NoRequest,
     body |-> <<>>, out |-> Pair(NilResp, NoErr), err |-> NoErr]

InitUpload ==
    /\ client \in {NewClient(GoodURL, opts) : opts \in OptionLists}
    /\ upload = UploadIdle
    /\ IdleExcept("upload")

\* Upload up to http.DefaultClient.Do: the body and the request
Upload(file, f, order) ==
    /\ upload.pc = "idle"
    /\ upload' =
         IF ~URLParses(file.url)
         THEN [upload EXCEPT !.pc = "done", !.file = file, !.f = f,
                             !.body = MultipartBody(file, f, order),
                             !.err = BuildErr]
         ELSE [upload EXCEPT !.pc = "sent", !.file = file, !.f = f,
                             !.body = MultipartBody(file, f, order),
                             !.req = [NewRequest("POST", file.url, {}, TRUE) EXCEPT
                                        !.header.ContentType = "multipart/form-data"]]
    /\ UNCHANGED <<pipeVars, rateVars, conc, paths, filter>>

\* Upload from the return of http.DefaultClient.Do on
UploadReturn(o) ==
    /\ upload.pc = "sent"
    /\ upload' =
         [upload EXCEPT
            !.pc = "done", !.out = o,
            !.err = IF o.err # NoErr THEN o.err
                    ELSE IF ~UploadOK(o.resp.status)
                         THEN UploadErr(o.resp.status, ReadAllIgnoring(o.resp))
                    ELSE NoErr]
    /\ UNCHANGED <<pipeVars, rateVars, conc, paths, filter>>

NextUpload ==
    \/ \E url \in UploadURLs, set \in FieldSets, f \in Payloads :
         \E order \in Perms(FieldsWritten(FileResponse(url, set))) :
             Upload(FileResponse(url, set), f, order)
    \/ \E o \in UploadOutcomes : UploadReturn(o)

SpecUpload == InitUpload /\ [][NextUpload]_vars

\* ------------------------------------------------- concurrent calls on a Client
\* Goroutines that share one Client and each make one Service.Get call.  A call's
\* request is an object of its own on the heap, and its handler, its position in
\* the handler and what it has done so far are local to the goroutine.
ConcIds == {12, 13}
NewAddrReused(heap) == 1

\* http.NewRequestWithContext returns a pointer to a request it allocated
NewAddr(heap) == Len(heap) + 1

Store(heap, a, r) == IF a > Len(heap) THEN Append(heap, r) ELSE [heap EXCEPT ![a] = r]
IdleCall == [pc |-> "idle", id |-> 0, addr |-> 0, handler |-> <<>>, cur |-> 0,
             trace |-> <<>>]
\* what a handler of a call records: the step, the middleware, the URL of the
\* request it was handed
ConcEvent(call_, heap, ev, mw) ==
    [ev |-> ev, mw |-> mw, path |-> heap[call_.addr].path]

InitConc ==
    /\ client \in {NewClient(GoodURL, opts) : opts \in
                     {o \in OptionLists :
                        \A i \in 1 .. Len(o) : o[i].mw.kind = "pass"}}
    /\ conc = [heap |-> <<>>, calls |-> [c \in Callers |-> IdleCall]]
    /\ IdleExcept("conc")

\* Service.Get up to the call of the composed handler
ConcGet(c, id) ==
    /\ conc.calls[c].pc = "idle"
    /\ LET a == NewAddr(conc.heap)
       IN conc' = [conc EXCEPT
                     !.heap = Store(@, a, SetHeaders(client, GetRequest(client, router, id))),
                     !.calls[c] = [@ EXCEPT !.pc = "down", !.id = id, !.addr = a,
                                     !.handler = Compose(client.middleware),
                                     !.cur = 1]]
    /\ UNCHANGED <<pipeVars, rateVars, paths, upload, filter>>

\* the handler in turn is entered: its middleware runs up to its call of next
ConcEnter(c) ==
    LET k == conc.calls[c] IN
    /\ k.pc = "down" /\ k.cur <= Len(k.handler)
    /\ conc' = [conc EXCEPT
                  !.calls[c].trace = Append(@, ConcEvent(k, conc.heap, "pre", k.handler[k.cur])),
                  !.calls[c].cur = @ + 1]
    /\ UNCHANGED <<pipeVars, rateVars, paths, upload, filter>>

\* finalHandler: c.httpClient.Do(req), answered by the server
ConcSend(c) ==
    LET k == conc.calls[c] IN
    /\ k.pc = "down" /\ k.cur > Len(k.handler)
    /\ conc' = [conc EXCEPT
                  !.calls[c].trace = Append(@, ConcEvent(k, conc.heap, "send", 0)),
                  !.calls[c].pc = "up",
                  !.calls[c].cur = Len(k.handler)]
    /\ UNCHANGED <<pipeVars, rateVars, paths, upload, filter>>

\* next returns to the middleware that called it, and doRequest to the Service
ConcReturn(c) ==
    LET k == conc.calls[c] IN
    /\ k.pc = "up"
    /\ conc' = IF k.cur = 0 THEN [conc EXCEPT !.calls[c].pc = "done"]
               ELSE [conc EXCEPT
                       !.calls[c].trace =
                           Append(@, ConcEvent(k, conc.heap, "post", k.handler[k.cur])),
                       !.calls[c].cur = @ - 1]
    /\ UNCHANGED <<pipeVars, rateVars, paths, upload, filter>>

NextConc ==
    \/ \E c \in Callers, id \in ConcIds : ConcGet(c, id)
    \/ \E c \in Callers : ConcEnter(c)
    \/ \E c \in Callers : ConcSend(c)
    \/ \E c \in Callers : ConcReturn(c)

SpecConc == InitConc /\ [][NextConc]_vars

\* ---------------------------------------------------------------- FilterBuilder
\* The builder's expression is the map filter.filter: field -> (operator -> value).
ComparisonOps == {"$eq", "$ne", "$lt", "$lte", "$gt", "$gte"}
FilterFields == {"priority", "status"}
LogicalOps == {"$and", "$or"}
\* values of type any: numbers, strings, booleans, nil, and []any of these
Num(n) == [t |-> "num", n |-> n, s |-> "", vs |-> <<>>]
Str(s) == [t |-> "str", n |-> 0, s |-> s, vs |-> <<>>]
Bool(b) == [t |-> "bool", n |-> IF b THEN 1 ELSE 0, s |-> "", vs |-> <<>>]
Null == [t |-> "null", n |-> 0, s |-> "", vs |-> <<>>]
Slice(vs) == [t |-> "list", n |-> 0, s |-> "", vs |-> vs]
\* a *FilterBuilder, and the []any an And or Or keeps of its arguments
Ref(b) == [t |-> "ref", n |-> b, s |-> "", vs |-> <<>>]
Refs(bs) == Slice([i \in 1 .. Len(bs) |-> Ref(bs[i])])
FilterValues == {Num(1), Str("open")}
\* the value sequences In and Nin are called with
ValueSeqs ==
    {<<>>, <<Null, Str("open")>>, <<Str("open"), Num(1), Bool(TRUE)>>}
Builders == {1, 2}
\* builders of which the earlier ones combine the later ones
Nodes == {1, 2, 3}

\* m[k] = v on a map
Put(m, k, v) == [x \in DOMAIN m \cup {k} |-> IF x = k THEN v ELSE m[x]]
\* NewFilter(): the empty map
NewFilter == [f \in {} |-> <<>>]

\* Comparison with a fault: the object of the field is replaced
ComparisonReplacing(expr, field, op, value) ==
    Put(expr, field, Put(NewFilter, op, value))

\* Eq, Ne, Lt, Lte, Gt, Gte: set the operator's key in the object of the field
Comparison(expr, field, op, value) ==
    Put(expr, field,
        Put(IF field \in DOMAIN expr THEN expr[field] ELSE NewFilter, op, value))

\* Membership with a fault: an empty sequence leaves the key out
MembershipOmitEmpty(expr, field, op, vs) ==
    IF vs = <<>> THEN expr
    ELSE Put(expr, field,
             Put(IF field \in DOMAIN expr THEN expr[field] ELSE NewFilter, op, Slice(vs)))

\* In, Nin: set $in or $nin in the object of the field to the values given
Membership(expr, field, op, vs) ==
    Put(expr, field,
        Put(IF field \in DOMAIN expr THEN expr[field] ELSE NewFilter, op, Slice(vs)))

\* Logical with a fault: the children are kept in reverse
LogicalReversed(expr, op, children) ==
    Put(expr, op, Refs([i \in 1 .. Len(children) |-> children[Len(children) + 1 - i]]))

\* And, Or: set $and or $or to the builders given, in the order given
Logical(expr, op, children) == Put(expr, op, Refs(children))

\* encoding/json: the keys of a map in sorted order, strings quoted
FieldOrder == <<"$and", "$or", "priority", "status">>
OpOrder == <<"$eq", "$gt", "$gte", "$in", "$lt", "$lte", "$ne", "$nin">>
Present(order, S) == SelectSeq(order, LAMBDA k : k \in S)
RECURSIVE Join(_)
Join(parts) ==
    IF parts = <<>> THEN ""
    ELSE IF Len(parts) = 1 THEN parts[1]
    ELSE parts[1] \o "," \o Join(Tail(parts))
Quote(s) == "\"" \o s \o "\""
MarshalScalar(v) ==
    CASE v.t = "num" -> Itoa(v.n)
      [] v.t = "str" -> Quote(v.s)
      [] v.t = "bool" -> IF v.n = 1 THEN "true" ELSE "false"
      [] v.t = "null" -> "null"
MarshalValue(v) ==
    IF v.t = "list"
    THEN "[" \o Join([i \in 1 .. Len(v.vs) |-> MarshalScalar(v.vs[i])]) \o "]"
    ELSE MarshalScalar(v)
MarshalOps(obj) ==
    LET ks == Present(OpOrder, DOMAIN obj)
    IN "{" \o Join([i \in 1 .. Len(ks) |->
                      Quote(ks[i]) \o ":" \o MarshalValue(obj[ks[i]])]) \o "}"
\* Deref with a fault: the child as it was when it was created
DerefFresh(exprs, b) == NewFilter

\* the expression of the builder an And or Or was given, read when it is marshalled
Deref(exprs, b) == exprs[b]

\* the JSON text of a builder's map; the children of $and and $or in their order
RECURSIVE MarshalMap(_, _)
MarshalMap(exprs, expr) ==
    LET ks == Present(FieldOrder, DOMAIN expr)
        Entry(k) ==
            IF k \in LogicalOps
            THEN "[" \o Join([i \in 1 .. Len(expr[k].vs) |->
                                MarshalMap(exprs, Deref(exprs, expr[k].vs[i].n))]) \o "]"
            ELSE MarshalOps(expr[k])
    IN "{" \o Join([i \in 1 .. Len(ks) |-> Quote(ks[i]) \o ":" \o Entry(ks[i])]) \o "}"
\* Build(): the JSON text of the expression
Build(expr) == MarshalMap(filter.exprs, expr)

NoOutput == [b |-> 0, text |-> ""]
\* exprs: the expression of each builder; hist: the calls made on each builder;
\* log: the receivers of the operator calls, in the order of the calls;
\* out: what the last call returned when it was a Build
InitFilter ==
    /\ filter = [exprs |-> [b \in Builders |-> NewFilter],
                 hist |-> [b \in Builders |-> <<>>],
                 log |-> <<>>,
                 out |-> NoOutput]
    /\ IdleExcept("filter")

CallsMade == Len(filter.log)

AssignShared(exprs, b, expr) == [x \in DOMAIN exprs |-> expr]

\* an operator call writes the map of its receiver
Assign(exprs, b, expr) == [exprs EXCEPT ![b] = expr]

\* b.Eq(field, value), b.Ne(field, value), ..
FilterComparison(b, op, field, value) ==
    /\ CallsMade < MaxCalls
    /\ filter' = [filter EXCEPT
                    !.exprs = Assign(@, b, Comparison(@[b], field, op, value)),
                    !.hist[b] = Append(@, [op |-> op, field |-> field, value |-> value]),
                    !.log = Append(@, b),
                    !.out = NoOutput]
    /\ UNCHANGED <<pipeVars, rateVars, conc, paths, upload>>

\* b.Build()
FilterBuild(b) ==
    /\ filter' = [filter EXCEPT !.out = [b |-> b, text |-> Build(filter.exprs[b])]]
    /\ UNCHANGED <<pipeVars, rateVars, conc, paths, upload>>

\* b.In(field, vs), b.Nin(field, vs)
FilterMembership(b, op, field, vs) ==
    /\ CallsMade < MaxCalls
    /\ filter' = [filter EXCEPT
                    !.exprs = Assign(@, b, Membership(@[b], field, op, vs)),
                    !.hist[b] = Append(@, [op |-> op, field |-> field, value |-> Slice(vs)]),
                    !.log = Append(@, b),
                    !.out = NoOutput]
    /\ UNCHANGED <<pipeVars, rateVars, conc, paths, upload>>

\* p.And(children..), p.Or(children..)
FilterLogical(p, op, children) ==
    /\ CallsMade < MaxCalls
    /\ filter' = [filter EXCEPT
                    !.exprs = Assign(@, p, Logical(@[p], op, children)),
                    !.hist[p] = Append(@, [op |-> op, field |-> "", value |-> Refs(children)]),
                    !.log = Append(@, p),
                    !.out = NoOutput]
    /\ UNCHANGED <<pipeVars, rateVars, conc, paths, upload>>

NextFilter ==
    \/ \E b \in Builders, op \in ComparisonOps, field \in FilterFields,
          value \in FilterValues : FilterComparison(b, op, field, value)
    \/ \E b \in Builders : FilterBuild(b)

SpecFilter == InitFilter /\ [][NextFilter]_vars

\* builders that are combined: the arguments of And and Or on a builder are
\* builders created after it, so that no builder contains itself
InitCombine ==
    /\ filter = [exprs |-> [b \in Nodes |-> NewFilter],
                 hist |-> [b \in Nodes |-> <<>>],
                 log |-> <<>>,
                 out |-> NoOutput]
    /\ IdleExcept("filter")

NextCombine ==
    \/ \E b \in Nodes, op \in {"$eq", "$gt"}, field \in FilterFields,
          value \in FilterValues : FilterComparison(b, op, field, value)
    \/ \E b \in Nodes, op \in {"$in", "$nin"}, vs \in ValueSeqs :
          FilterMembership(b, op, "status", vs)
    \/ \E p \in Nodes, op \in LogicalOps :
          \E a \in {n \in Nodes : n > p}, b \in {n \in Nodes : n > p} :
             FilterLogical(p, op, <<a, b>>)
    \/ \E b \in Nodes : FilterBuild(b)

SpecCombine == InitCombine /\ [][NextCombine]_vars

\* ====================================================================== claims
AllPass == \A i \in 1 .. Len(client.middleware) : client.middleware[i].kind = "pass"
NoRetryMw == \A i \in 1 .. Len(client.middleware) : client.middleware[i].kind # "retry"
IsPrefix(s, t) == Len(s) <= Len(t) /\ SubSeq(t, 1, Len(s)) = s
\* doRequest has returned to the Service
Returned == (pc = "up" /\ stack = <<>>) \/ (pc = "done" /\ result.kind # "panic")
\* the Service operation is over and had received a response from doRequest
Received == pc = "done" /\ ret.err = NoErr /\ ~ret.resp.isNil
\* the status the operation in progress expects
Expected == IF call.op = "Create" THEN 201 ELSE 200

\* M1-pre .. Mn-pre, send, Mn-post .. M1-post
ExpectedOrder(n) ==
    [i \in 1 .. n |-> <<"pre", i>>] \o <<(<<"send", 0>>)>>
    \o [i \in 1 .. n |-> <<"post", n + 1 - i>>]
Order == [i \in 1 .. Len(trace) |-> <<trace[i].ev, trace[i].mw>>]

\* C1: with middleware M1..Mn that each call next once, what a doRequest call has
\* done so far is always an initial part of M1-pre, .., Mn-pre, send, Mn-post, ..,
\* M1-post, and it is the whole of it when doRequest returns.
C1_MiddlewareOrder ==
    (AllPass /\ pc # "idle" /\ URLParses(client.baseURL)) =>
        /\ IsPrefix(Order, ExpectedOrder(Len(client.middleware)))
        /\ Returned => Order = ExpectedOrder(Len(client.middleware))

C1_Witness ==
    /\ AllPass
    /\ Len(client.middleware) >= 2
    /\ pc = "up" /\ stack = <<>>
    /\ Len(trace) = 2 * Len(client.middleware) + 1

\* C2: a RetryMiddleware(k, delay) invocation with k >= 0 whose next returned an
\* error every time, under a context that was never cancelled, has called next
\* exactly k+1 times when it returns, and returns what the last call returned;
\* while it runs it has made attempt+1 calls, never more than k+1.
C2_RetryExhausts ==
    /\ (retryLog.how # "none" /\ retryLog.maxRetries >= 0 /\ retryLog.allErr
        /\ ~cancelled) =>
          /\ retryLog.how = "loop"
          /\ retryLog.calls = retryLog.maxRetries + 1
          /\ retryLog.out = retryLog.inner
          /\ retryLog.out.err # NoErr
    /\ \A i \in 1 .. Len(stack) :
          client.middleware[stack[i].mw].kind = "retry" =>
             /\ stack[i].calls = stack[i].attempt + 1
             /\ stack[i].calls <= client.middleware[stack[i].mw].maxRetries + 1

C2_Witness ==
    /\ retryLog.how = "loop" /\ retryLog.maxRetries = 2 /\ retryLog.allErr
    /\ ~cancelled /\ retryLog.calls = 3 /\ retryLog.out.err = TransportErr

\* C3: when the context is cancelled while RetryMiddleware is blocked between two
\* attempts, that step makes it return (nil, ctx.Err()): the wait ends, next is
\* not called again and nothing more is sent.
C3_CancelDuringWait ==
    [][(pc = "wait" /\ ~cancelled /\ cancelled') =>
          /\ pc' = "up"
          /\ ret' = Pair(NilResp, CtxErr)
          /\ stack' = Pop
          /\ retryLog'.calls = Top.calls
          /\ sends' = sends]_vars

C3_Witness ==
    /\ retryLog.how = "ctxWait" /\ retryLog.out = Pair(NilResp, CtxErr)
    /\ retryLog.calls = 1 /\ retryLog.maxRetries = 2

\* C4: every request handed to the transport for a call with a body carries the
\* whole payload, also on an attempt that follows a failed one.
C4_EveryAttemptHasBody ==
    req.hasBody => \A i \in 1 .. Len(sends) : sends[i].body = buf.data

\* the path and the method each operation is to use
ExpectedPath ==
    CASE call.op = "Get" -> client.baseURL \o "/" \o PathGet(router, call.id) \o ".json"
      [] call.op = "List" -> client.baseURL \o "/" \o PathList(router) \o ".json"
      [] call.op = "Create" -> client.baseURL \o "/" \o PathCreate(router) \o ".json"
      [] call.op = "Update" -> client.baseURL \o "/" \o PathUpdate(router, call.id) \o ".json"
      [] OTHER -> ""
ExpectedMethod ==
    CASE call.op \in {"Get", "List"} -> "GET"
      [] call.op = "Create" -> "POST"
      [] call.op = "Update" -> "PUT"
      [] OTHER -> ""

C6_CreateNon201 ==
    (Received /\ call.op = "Create" /\ ret.resp.status # 201 /\ ret.resp.readable) =>
        /\ result.kind = "err"
        /\ result.entity = NilEntity
        /\ result.err.code = ret.resp.status
        /\ result.err.text = ret.resp.body

\* C7: Get, List and Update, on a response whose status is not 200, return a nil
\* result and an error that carries the status code and the raw response body
\* (stated for a client that has a logger and a body that can be read).
C7_Non200CarriesBody ==
    (Received /\ call.op \in {"Get", "List", "Update"} /\ ret.resp.status # 200
     /\ ret.resp.readable /\ client.logger = CustomLogger) =>
        /\ result.kind = "err"
        /\ result.entity = NilEntity
        /\ result.err.code = ret.resp.status
        /\ result.err.text = ret.resp.body

\* C8: a failed call reports which of the three failures it met: the transport's
\* error, an unexpected-status error, or, for a response with the expected status
\* whose body does not decode, an error that is neither of these, with no entity.
C8_FailureKindsDistinct ==
    /\ (pc = "done" /\ ret.err = TransportErr) => result = Fail(TransportErr)
    /\ (Received /\ ret.resp.status # Expected /\ ret.resp.readable) =>
          result.kind = "err" /\ result.err.kind = "status"
    /\ (Received /\ ret.resp.status = Expected /\ ~Decodable(ret.resp.body)) =>
          /\ result.kind = "err"
          /\ result.err.kind \notin {"status", "transport"}
          /\ result.entity = NilEntity

\* C9: every call, on every client NewClient builds, ends by returning either a
\* result with a nil error or a nil result with an error.
C9_ReturnsResultOrError ==
    pc = "done" =>
        \/ result.kind = "ok" /\ result.entity # NilEntity /\ result.err = NoErr
        \/ result.kind = "err" /\ result.entity = NilEntity /\ result.err # NoErr

\* the middleware at index i has returned its error without calling next
Aborted(i) ==
    /\ client.middleware[i].kind = "abort"
    /\ \E j \in 1 .. Len(trace) : trace[j].ev = "post" /\ trace[j].mw = i

\* C10: once middleware Mi has returned an error without calling next, no
\* middleware declared after Mi has run, nothing was sent, the instrumented
\* middleware before Mi see that error when they return, and the Service
\* operation returns that error.
C10_AbortPropagates ==
    \A i \in 1 .. Len(client.middleware) :
        Aborted(i) =>
            /\ \A j \in 1 .. Len(trace) : trace[j].mw <= i
            /\ sends = <<>>
            /\ \A j \in 1 .. Len(trace) :
                  (trace[j].ev = "post" /\ client.middleware[trace[j].mw].kind = "pass")
                      => trace[j].err = MwErr
            /\ pc = "done" => result = Fail(MwErr)

\* the transport under the client's http.Client has failed during this call
TransportFailed ==
    \E j \in 1 .. Len(trace) : trace[j].ev = "send" /\ trace[j].err = TransportErr

\* C11: on the default transport and without a retry middleware, a call whose
\* transport failed ends by returning that error to the caller of the Service,
\* after exactly one send (stated for a client that has a logger).
C11_TransportFailureReturned ==
    (pc = "done" /\ client.httpClient = LoggingHTTPClient /\ NoRetryMw
     /\ client.logger = CustomLogger /\ TransportFailed) =>
        /\ result = Fail(TransportErr)
        /\ Len(sends) = 1

\* the provided middleware that pass on what next returns
PassThroughKinds ==
    {"logging", "auth", "userAgent", "header", "requestID", "timeout", "conditional"}
\* the response and the error of two pairs are the same
SamePair(a, b) ==
    /\ a.err = b.err
    /\ a.resp.isNil = b.resp.isNil
    /\ a.resp.status = b.resp.status
    /\ a.resp.body = b.resp.body

\* C12: LoggingMiddleware, AuthMiddleware, UserAgentMiddleware, HeaderMiddleware,
\* RequestIDMiddleware, TimeoutMiddleware and ConditionalMiddleware have called
\* next once when it returns to them, and their next step is to return the
\* response and the error it returned.
C12_ProvidedReturnNextsPair ==
    [][(pc = "up" /\ stack # <<>> /\ Top.kind \in PassThroughKinds) =>
          /\ Top.calls = 1
          /\ pc' = "up"
          /\ stack' = Pop
          /\ SamePair(ret', ret)]_vars

\* the handler about to run is finalHandler: req goes to the transport
AtTransport == pc = "down" /\ cur = Len(handler) + 1
\* the three headers doRequest sets, and the values it gives them
ClientHeaders == {"Authorization", "ContentType", "Accept"}
FromClient(key) ==
    IF key = "Authorization"
    THEN (IF client.apiKey # "" THEN "Bearer " \o client.apiKey ELSE "")
    ELSE "application/json"
\* the middleware a frame runs: the one declared, or the one it wraps
FrameMw(f) ==
    IF client.middleware[f.mw].kind = f.kind THEN client.middleware[f.mw]
    ELSE client.middleware[f.mw].inner[1]
\* the running middleware that have set the header key, and the value one set
Writers(key) ==
    {i \in 1 .. Len(stack) :
        \/ stack[i].kind = "auth" /\ key = "Authorization" /\ FrameMw(stack[i]).token # ""
        \/ stack[i].kind = "header" /\ \E p \in FrameMw(stack[i]).headers : p[1] = key}
Written(i, key) ==
    IF stack[i].kind = "auth" THEN "Bearer " \o FrameMw(stack[i]).token
    ELSE (CHOOSE p \in FrameMw(stack[i]).headers : p[1] = key)[2]
Innermost(S) == CHOOSE i \in S : \A j \in S : j <= i
\* header has each of the three headers as the client set it, or as the
\* innermost running middleware that wrote it did
AsExpected(header) ==
    \A key \in ClientHeaders :
        header[key] = IF Writers(key) = {} THEN FromClient(key)
                      ELSE Written(Innermost(Writers(key)), key)

\* C13 as stated: every request handed to the transport carries Content-Type and
\* Accept application/json, and Authorization: Bearer {api-key} exactly when the
\* client has an API key.
C13_EveryRequestCarriesHeaders ==
    \A i \in 1 .. Len(sends) :
        \A key \in ClientHeaders : sends[i].header[key] = FromClient(key)

\* C13, amended: a request doRequest hands to the transport carries each of the
\* three headers as doRequest set it, unless a middleware that ran before the
\* transport has set that header; then it carries what the innermost of them set.
C13_HeadersUnlessOverwritten ==
    /\ AtTransport => AsExpected(req.header)
    /\ (sends # <<>> /\ trace[Len(trace)].ev = "send") =>
          AsExpected(sends[Len(sends)].header)

C13_Witness ==
    /\ sends # <<>> /\ pc = "up" /\ Len(stack) = 2
    /\ client.apiKey = "key"
    /\ \A key \in ClientHeaders : Writers(key) = {}
    /\ sends[1].header.Authorization = "Bearer key"
    /\ sends[1].header.ContentType = "application/json"
    /\ sends[1].header.UserAgent = "ua"

\* the context the invocation at stack[i] has handed to its next
HandedOn(i) == IF i < Len(stack) THEN stack[i + 1].ctx ELSE ctx
\* the deadline of a TimeoutMiddleware has passed during a round trip
DeadlinePassed ==
    \E j \in 1 .. Len(trace) : trace[j].ev = "send" /\ trace[j].err = DeadlineErr
\* a TimeoutMiddleware has run in this call
TimeoutRan ==
    \E j \in 1 .. Len(trace) :
        /\ trace[j].ev = "pre"
        /\ \/ client.middleware[trace[j].mw].kind = "timeout"
           \/ /\ client.middleware[trace[j].mw].kind = "conditional"
              /\ client.middleware[trace[j].mw].inner[1].kind = "timeout"
              /\ Holds(IsPost, req)

\* C16: the context TimeoutMiddleware(d) hands to next, and the context of the
\* request, carry a deadline no later than its entry time + d and no later than
\* the deadline of the context it was entered with; a call whose round trip the
\* deadline cut short ends by returning a deadline or cancellation error.
C16_TimeoutBoundsCall ==
    /\ \A i \in 1 .. Len(stack) :
          (stack[i].kind = "timeout" /\ (i < Len(stack) \/ pc = "down")) =>
             /\ HandedOn(i).hasDeadline
             /\ HandedOn(i).deadline <= stack[i].at + FrameMw(stack[i]).timeout
             /\ stack[i].ctx.hasDeadline =>
                    HandedOn(i).deadline <= stack[i].ctx.deadline
             /\ (i = Len(stack) /\ pc = "down") => req.ctx = ctx
    /\ (pc = "done" /\ TimeoutRan /\ DeadlinePassed) =>
          /\ result.kind = "err"
          /\ result.err.kind \in {"deadline", "ctx"}

\* the callers that hold a tick: admitted, next not yet returned
Holding(t) == {c \in Callers : callers[c].pc = "next" /\ callers[c].token = t}

\* C14: the calls one RateLimitMiddleware has admitted are never more than the
\* ticks that have occurred, its channel never banks more than one tick, and no
\* tick admits two calls.
C14_AdmissionsBoundedByTicks ==
    /\ Len(limiter.admits) <= limiter.ticks
    /\ Len(limiter.chan) <= 1
    /\ \A i, j \in 1 .. Len(limiter.admits) :
          limiter.admits[i] = limiter.admits[j] => i = j
    /\ \A i \in 1 .. Len(limiter.chan) :
          \A j \in 1 .. Len(limiter.admits) : limiter.chan[i] # limiter.admits[j]
    /\ \A t \in 1 .. limiter.ticks : Cardinality(Holding(t)) <= 1

C14_Witness ==
    /\ limiter.ticks = 3 /\ Len(limiter.admits) = 2 /\ Len(limiter.chan) = 1
    /\ callers[1].pc = "next" /\ callers[2].pc = "next"

\* C15: a caller blocked in RateLimitMiddleware whose context is cancelled
\* returns the context's error in that step, without calling next and without
\* taking a tick; no caller is blocked under a cancelled context.
C15_CancelWhileBlocked ==
    /\ [](\A c \in Callers : ~(callers[c].pc = "blocked" /\ callers[c].ctxDone))
    /\ [][\A c \in Callers :
            (callers[c].pc = "blocked" /\ callers'[c].ctxDone) =>
                /\ callers'[c].pc = "returned"
                /\ callers'[c].err = "ctx"
                /\ callers'[c].token = 0
                /\ limiter' = limiter]_vars

C15_Witness ==
    /\ callers[1].pc = "returned" /\ callers[1].err = "ctx" /\ callers[1].ctxDone
    /\ callers[1].waited /\ callers[1].token = 0
    /\ limiter.ticks = 0
    /\ callers[2].pc = "blocked"

\* the decimal numeral of each id the path methods are called with
Decimal(id) ==
    CASE id = -3 -> "-3" [] id = 0 -> "0" [] id = 5 -> "5" [] id = 9 -> "9"
      [] id = 10 -> "10" [] id = 12 -> "12" [] id = 99 -> "99" [] id = 100 -> "100"
      [] id = 105 -> "105" [] id = 2147483647 -> "2147483647"

\* C17: DefaultPathHandler answers Get(id) and Update(id) with base/decimal(id)
\* and List() and Create() with base; FilePathHandler answers Get, List and
\* Update as a DefaultPathHandler for "files" does, and Create() with files/ref.
C17_PathsOfHandlers ==
    LET base == IF paths.h.type = "FilePathHandler" THEN "files" ELSE paths.h.d.base
    IN  /\ paths.op \in {"Get", "Update"} =>
              paths.out = base \o "/" \o Decimal(paths.id)
        /\ paths.op = "List" => paths.out = base
        /\ paths.op = "Create" =>
              paths.out = IF paths.h.type = "FilePathHandler" THEN "files/ref" ELSE base

C17_Witness ==
    /\ paths.h.type = "FilePathHandler" /\ paths.op = "Update" /\ paths.id = 105
    /\ paths.out = "files/105"

\* C18: Upload returns nil exactly when the upload endpoint answered with status
\* 200, 201 or 204; for any other status it returns an error that carries the
\* status code and the body that arrived, and when the transport fails it
\* returns the transport's error.
UploadAnswered == upload.pc = "done" /\ upload.req # NoRequest
C18_UploadStatus ==
    upload.pc = "done" =>
        /\ upload.err = NoErr <=>
             /\ UploadAnswered /\ upload.out.err = NoErr
             /\ upload.out.resp.status \in {200, 201, 204}
        /\ (UploadAnswered /\ upload.out.err = NoErr
            /\ upload.out.resp.status \notin {200, 201, 204}) =>
             /\ upload.err.kind = "upload"
             /\ upload.err.code = upload.out.resp.status
             /\ upload.out.resp.readable => upload.err.text = upload.out.resp.body
        /\ (UploadAnswered /\ upload.out.err # NoErr) => upload.err = upload.out.err
C18_Witness ==
    /\ UploadAnswered /\ upload.out.err = NoErr
    /\ upload.out.resp.status = 202 /\ upload.out.resp.body = "denied"
    /\ upload.out.resp.readable /\ upload.err.text = "denied"

\* C19: no call changes the Client's base URL, API key, transport or middleware
\* list, and however concurrent calls on one Client interleave, each call runs
\* the interceptors in declaration order, around one send, and every one of its
\* handlers is handed the call's own request.
ConcOrder(c) ==
    [i \in 1 .. Len(conc.calls[c].trace) |->
        <<conc.calls[c].trace[i].ev, conc.calls[c].trace[i].mw>>]
OwnPath(c) == GetRequest(client, router, conc.calls[c].id).path
C19_CallsDoNotInterfere ==
    /\ [](\A c \in Callers :
            LET k == conc.calls[c] IN
            k.pc # "idle" =>
              /\ IsPrefix(ConcOrder(c), ExpectedOrder(Len(client.middleware)))
              /\ k.pc = "done" => ConcOrder(c) = ExpectedOrder(Len(client.middleware))
              /\ \A i \in 1 .. Len(k.trace) : k.trace[i].path = OwnPath(c))
    /\ [][/\ client'.baseURL = client.baseURL
          /\ client'.apiKey = client.apiKey
          /\ client'.httpClient = client.httpClient
          /\ client'.middleware = client.middleware]_vars
\* two calls with different ids are in progress at once: one is on its way back
\* from the transport while the other has entered its first middleware
C19_Witness ==
    /\ Len(client.middleware) = 2
    /\ conc.calls[1].pc = "up" /\ Len(conc.calls[1].trace) = 4
    /\ conc.calls[2].pc = "down" /\ Len(conc.calls[2].trace) = 1
    /\ conc.calls[1].id # conc.calls[2].id

\* C20: after any sequence of Eq/Ne/Lt/Lte/Gt/Gte calls on a builder, Build()
\* yields the document whose keys are exactly the fields named in the calls,
\* each with an object whose keys are exactly the operators applied to the
\* field, each with the value of the latest call for that field and operator;
\* with no calls the text is {}.
Named(h) == {h[i].field : i \in DOMAIN h}
Applied(h, field) == {h[i].op : i \in {j \in DOMAIN h : h[j].field = field}}
Latest(h, field, op) ==
    h[CHOOSE i \in DOMAIN h :
        /\ h[i].field = field /\ h[i].op = op
        /\ \A j \in DOMAIN h : (h[j].field = field /\ h[j].op = op) => j <= i].value
ExpectedDocument(h) ==
    [field \in Named(h) |-> [op \in Applied(h, field) |-> Latest(h, field, op)]]
C20_ComparisonsAccumulate ==
    filter.out.b # 0 =>
        LET h == filter.hist[filter.out.b] IN
        /\ filter.exprs[filter.out.b] = ExpectedDocument(h)
        /\ filter.out.text = Build(ExpectedDocument(h))
        /\ h = <<>> => filter.out.text = "{}"
        /\ h = <<[op |-> "$eq", field |-> "status", value |-> Str("open")]>> =>
             filter.out.text = "{\"status\":{\"$eq\":\"open\"}}"
        /\ h = <<[op |-> "$gte", field |-> "priority", value |-> Num(1)],
                 [op |-> "$lte", field |-> "priority", value |-> Str("open")],
                 [op |-> "$gte", field |-> "priority", value |-> Str("open")]>> =>
             filter.out.text = "{\"priority\":{\"$gte\":\"open\",\"$lte\":\"open\"}}"
\* a range on one field: Gte then Lte, and the document holds both
C20_Witness ==
    /\ filter.out.b = 1
    /\ Len(filter.hist[1]) = 2
    /\ filter.hist[1][1].op = "$gte" /\ filter.hist[1][2].op = "$lte"
    /\ filter.hist[1][1].field = "priority" /\ filter.hist[1][2].field = "priority"
    /\ filter.out.text = "{\"priority\":{\"$gte\":1,\"$lte\":1}}"

\* C21: In(field, vs) and Nin(field, vs) followed by Build() give a document in
\* which the field has $in / $nin with an array of the same length, order and
\* elements as vs: an empty vs gives an empty array, a nil element gives null.
LastCall == filter.hist[filter.out.b][Len(filter.hist[filter.out.b])]
\* the builder just built received one call only, an In or a Nin
OneMembership ==
    /\ filter.out.b # 0
    /\ Len(filter.hist[filter.out.b]) = 1
    /\ LastCall.op \in {"$in", "$nin"}
\* the JSON text of the elements, written out for the sequences called with
ArrayText(vs) ==
    CASE vs = <<>> -> "[]"
      [] vs = <<Null, Str("open")>> -> "[null,\"open\"]"
      [] vs = <<Str("open"), Num(1), Bool(TRUE)>> -> "[\"open\",1,true]"
C21_MembershipKeepsValues ==
    OneMembership =>
        /\ DOMAIN filter.exprs[filter.out.b] = {LastCall.field}
        /\ DOMAIN filter.exprs[filter.out.b][LastCall.field] = {LastCall.op}
        /\ filter.exprs[filter.out.b][LastCall.field][LastCall.op].vs = LastCall.value.vs
        /\ filter.out.text =
             "{\"" \o LastCall.field \o "\":{\"" \o LastCall.op \o "\":"
             \o ArrayText(LastCall.value.vs) \o "}}"
C21_Witness ==
    /\ OneMembership
    /\ LastCall.value.vs = <<Null, Str("open")>>
    /\ filter.out.text = "{\"status\":{\"$in\":[null,\"open\"]}}"

\* C22: for sub-filters A and B, combinations themselves included,
\* NewFilter().And(A, B).Build() is the document with the one key $and, whose
\* array is the document of A.Build() followed by the document of B.Build();
\* the same for Or with $or.
\* the builder just built received one call only, an And or an Or
OneLogical ==
    /\ filter.out.b # 0
    /\ Len(filter.hist[filter.out.b]) = 1
    /\ LastCall.op \in LogicalOps
ChildOf(i) == LastCall.value.vs[i].n
C22_LogicalCombines ==
    /\ OneLogical =>
         /\ DOMAIN filter.exprs[filter.out.b] = {LastCall.op}
         /\ Len(LastCall.value.vs) = 2
         /\ filter.out.text =
              "{\"" \o LastCall.op \o "\":[" \o Build(filter.exprs[ChildOf(1)])
              \o "," \o Build(filter.exprs[ChildOf(2)]) \o "]}"
    /\ (/\ OneLogical /\ filter.out.b = 1 /\ LastCall.op = "$and"
        /\ ChildOf(1) = 2 /\ ChildOf(2) = 3
        /\ filter.hist[2] = <<[op |-> "$eq", field |-> "status", value |-> Str("open")]>>
        /\ filter.hist[3] = <<>>) =>
         filter.out.text = "{\"$and\":[{\"status\":{\"$eq\":\"open\"}},{}]}"
\* an And of an Or and a plain builder
C22_Witness ==
    /\ OneLogical /\ filter.out.b = 1 /\ LastCall.op = "$and"
    /\ ChildOf(1) = 2 /\ ChildOf(2) = 3
    /\ Len(filter.hist[2]) = 1 /\ filter.hist[2][1].op = "$or"
    /\ filter.out.text = "{\"$and\":[{\"$or\":[{},{}]},{}]}"

\* C23: the children of an And/Or are read when the parent's Build() runs: when
\* a child received an operator call after the And/Or and before the parent's
\* Build(), the text Build() returns holds the child's document after that call;
\* and an And/Or call leaves what Build() returns for its arguments unchanged.
\* the builder received a call after the builder just built received its call
ChangedAfter(c) ==
    \E i \in DOMAIN filter.log, j \in DOMAIN filter.log :
        i < j /\ filter.log[i] = filter.out.b /\ filter.log[j] = c
\* the builder received no And and no Or
Plain(c) == \A i \in DOMAIN filter.hist[c] : filter.hist[c][i].op \notin LogicalOps
TextOfCalls(c) == Build(ExpectedDocument(filter.hist[c]))
C23_ChildrenReadAtBuild ==
    /\ []((/\ OneLogical
           /\ ChangedAfter(ChildOf(1)) \/ ChangedAfter(ChildOf(2))
           /\ Plain(ChildOf(1)) /\ Plain(ChildOf(2))) =>
            filter.out.text =
              "{\"" \o LastCall.op \o "\":[" \o TextOfCalls(ChildOf(1))
              \o "," \o TextOfCalls(ChildOf(2)) \o "]}")
    /\ [][\A p \in DOMAIN filter.hist :
            (/\ Len(filter'.hist[p]) = Len(filter.hist[p]) + 1
             /\ filter'.hist[p][Len(filter'.hist[p])].op \in LogicalOps) =>
              \A i \in {1, 2} :
                 LET c == filter'.hist[p][Len(filter'.hist[p])].value.vs[i].n
                 IN MarshalMap(filter'.exprs, filter'.exprs[c])
                      = MarshalMap(filter.exprs, filter.exprs[c])]_vars
\* And(A, B) on builder 1, then A.Eq("status", "open"), then Build() on builder 1
C23_Witness ==
    /\ OneLogical /\ filter.out.b = 1
    /\ filter.log = <<1, 2>>
    /\ ChildOf(1) = 2
    /\ filter.hist[2] = <<[op |-> "$eq", field |-> "status", value |-> Str("open")]>>
    /\ filter.out.text = "{\"" \o LastCall.op \o "\":[{\"status\":{\"$eq\":\"open\"}},{}]}"

\* C24: Build() is a pure read: it leaves every builder's expression as it was,
\* a Build() that follows a Build() of the same builder with no operator call in
\* between returns the same text, and an operator call on one builder leaves the
\* text Build() gives for any builder that does not contain it unchanged.
RECURSIVE Contains(_, _, _)
\* builder c holds builder r in an $and or $or, directly or through a child
Contains(exprs, c, r) ==
    \E k \in DOMAIN exprs[c] \cap LogicalOps :
        \E i \in DOMAIN exprs[c][k].vs :
            exprs[c][k].vs[i].n = r \/ Contains(exprs, exprs[c][k].vs[i].n, r)
RetryOnTop == stack # <<>> /\ client.middleware[Top.mw].kind = "retry"
C25_RetrySequential ==
    /\ [][(\E i \in 1 .. Len(stack) :
             i <= Len(stack') /\ stack'[i].attempt > stack[i].attempt) =>
            /\ pc = "wait" /\ Top.st = "blocked" /\ ret.err # NoErr
            /\ Len(stack') = Len(stack)
            /\ Top'.attempt = Top.attempt + 1
            /\ ~cancelled']_vars
    /\ [][(pc = "up" /\ RetryOnTop /\ ret.err = NoErr /\ stack' # stack) =>
            /\ stack' = Pop /\ pc' = "up" /\ ret' = ret /\ sends' = sends]_vars
    /\ [](retryLog.how # "none" /\ retryLog.inner.err = NoErr /\ retryLog.calls > 0 =>
            retryLog.out = retryLog.inner)
\* the first attempt failed, the second succeeded, the third was not made
C25_Witness ==
    /\ retryLog.how = "loop" /\ retryLog.maxRetries = 2 /\ retryLog.calls = 2
    /\ retryLog.out.err = NoErr /\ ~retryLog.out.resp.isNil
    /\ Len(sends) = 2

\* C26: for every maxRetries, negative ones included, a RetryMiddleware
\* invocation calls next at least once and returns a response or an error, never
\* (nil, nil).
C26_RetryNeverNilNil ==
    retryLog.how # "none" =>
        /\ retryLog.calls >= 1
        /\ ~(retryLog.out.resp.isNil /\ retryLog.out.err = NoErr)

\* C27: when a call went through a TimeoutMiddleware and doRequest returned a
\* response with a nil error, the context of the request that response belongs
\* to is not cancelled when the Service reads and decodes the body.
C27_ContextLiveForBody ==
    (pc = "done" /\ TimeoutRan /\ ret.err = NoErr /\ ~ret.resp.isNil) =>
        ~ret.resp.ctxDone

\* C28: a caller whose context is done when it reaches the select of
\* RateLimitMiddleware is not admitted: it returns the context's error, next is
\* not called for it, and a tick waiting in the channel stays there.
C28_NoAdmissionWhenCancelled ==
    [][\A c \in Callers :
          (callers[c].pc = "idle" /\ callers[c].ctxDone /\ callers'[c].pc # "idle") =>
             /\ callers'[c].pc = "returned"
             /\ callers'[c].err = "ctx"
             /\ limiter' = limiter]_vars

\* C29: RetryMiddleware makes another attempt only after an error: when next
\* returns a response with a nil error, whatever its status, the invocation
\* returns that response and nothing more is sent, so a call whose only round
\* trip was answered with a whole response of unexpected status ends with the
\* status error.
RetryPresent == \E i \in 1 .. Len(client.middleware) : client.middleware[i].kind = "retry"
Answered ==
    /\ sends # <<>>
    /\ \A j \in 1 .. Len(trace) : trace[j].ev = "send" => trace[j].err = NoErr
C29_RetryOnlyOnError ==
    /\ [][(pc = "up" /\ RetryOnTop /\ ret.err = NoErr /\ ~ret.resp.isNil
           /\ ret.resp.status # Expected /\ stack' # stack) =>
            /\ stack' = Pop /\ pc' = "up" /\ ret' = ret /\ sends' = sends]_vars
    /\ []((RetryPresent /\ Answered) => Len(sends) = 1)
    /\ []((RetryPresent /\ Answered /\ Received /\ ret.resp.readable
            /\ ret.resp.status # Expected) =>
            /\ result.kind = "err"
            /\ result.err.kind = "status"
            /\ result.err.code = ret.resp.status)

\* C30: Upload runs outside the pipeline: none of the client's middleware runs
\* and nothing goes through doRequest, the request it builds carries no
\* Authorization header whatever the client's API key, and in the body the file
\* part comes after every signed form field that has a value.
FilePartAt(i) == upload.body[i].name = "file"
C30_UploadOutsidePipeline ==
    upload.pc # "idle" =>
        /\ trace = <<>> /\ sends = <<>> /\ pc = "idle"
        /\ upload.req # NoRequest => upload.req.header.Authorization = ""
        /\ \E i \in 1 .. Len(upload.body) :
             /\ FilePartAt(i)
             /\ \A k \in FieldsWritten(upload.file) :
                  \E j \in 1 .. i - 1 : upload.body[j].name = k
C30_Witness ==
    /\ upload.pc = "done" /\ upload.req # NoRequest /\ upload.err = NoErr
    /\ client.apiKey = "key" /\ client.middleware # <<>>
    /\ Cardinality(FieldsWritten(upload.file)) = 3
    /\ FilePartAt(4)

====
